---- MODULE Spec2Model ----
(***************************************************************************)
(* Model of diesel/src/persistable.rs: the Insertable mapping contract,    *)
(* the InsertableColumns column-set contract, the bulk impls for &[U] and  *)
(* &Vec<U>, and the InsertValues query fragment with its to_sql loop.      *)
(***************************************************************************)
EXTENDS Integers, Sequences, FiniteSets

\* Bounds of the model.
MaxLen == 3      \* longest record sequence handed to a bulk insert
MaxCalls == 2    \* to_sql calls made in one behaviour

\* Option values.
None == [some |-> FALSE]
Some(x) == [some |-> TRUE, v |-> x]
NoForm == "none"
Ok == "Ok"

VARIABLES
    heap,       \* caller-owned buffers: buffer id -> sequence of records
    vec,        \* the caller's Vec<U>: [ptr, len]
    slice,      \* the caller's &[U] over the same elements: [ptr, len]
    elemType,   \* the element mapping (&'a U: Insertable<T>)
    exprs,      \* form -> None or the InsertValues built by values()
    valuesTag,  \* form -> None or the SqlType of the Values built by values()
    usable,     \* form -> "untried" | "ok" | "no_impl" (trait resolution)
    colsOut,    \* form -> None or the result of columns()
    namesOut,   \* column -> None or the result of names()
    out,        \* the QueryBuilder accumulator, a sequence of SQL tokens
    pc,         \* "idle" or "loop" (inside InsertValues::to_sql)
    cur,        \* form of the InsertValues being rendered
    i,          \* the enumerate() index of the loop
    mark,       \* the accumulator as it was when the running to_sql call started
    converted,  \* indices whose record.values() ran in the running call
    hist        \* finished to_sql calls

vars == <<heap, vec, slice, elemType, exprs, valuesTag, usable, colsOut,
          namesOut, out, pc, cur, i, mark, converted, hist>>

----------------------------------------------------------------------------
\* Table and column metadata (external: query_source::{Table, Column}).

Table == "users"

ColumnDecls ==
    [c \in {"name", "age"} |->
        CASE c = "name" -> [table |-> "users", name |-> <<"n", "a", "m", "e">>,
                            sql_type |-> "VarChar"]
          [] c = "age"  -> [table |-> "users", name |-> <<"a", "g", "e">>,
                            sql_type |-> "Integer"]]

Columns == DOMAIN ColumnDecls

\* <C as Expression>::SqlType of a column: its declared SQL type.
ExpressionSqlType(c) == ColumnDecls[c].sql_type

\* Column::name()
ColumnName(c) == ColumnDecls[c].name

\* str::to_string: a fresh String holding the same characters.
RECURSIVE to_string(_)
to_string(s) == IF s = <<>> THEN <<>> ELSE <<Head(s)>> \o to_string(Tail(s))

\* A plausible slip: the table-qualified name.
names_qualified(c) == <<ColumnDecls[c].table, ".">> \o to_string(ColumnName(c))

\* impl InsertableColumns<T> for C: names()
names(c) == to_string(ColumnName(c))

\* impl InsertableColumns<T> for C: type SqlType (a column-set of size one)
InsertableColumns_SqlType(c) == <<ExpressionSqlType(c)>>

\* The fused SQL type of a column-set: the column types in list order.
FusedSqlType(cs) ==
    IF Len(cs) = 1 THEN InsertableColumns_SqlType(cs[1])
    ELSE [k \in 1..Len(cs) |-> ExpressionSqlType(cs[k])]

----------------------------------------------------------------------------
\* Element mappings: &'a U: Insertable<T>.

CandidateMappings ==
    { [name |-> "NewUser", columns |-> <<"name", "age">>,
       values_type |-> <<"VarChar", "Integer">>],
      [name |-> "NewName", columns |-> <<"name">>,
       values_type |-> <<"VarChar">>],
      [name |-> "BadUser", columns |-> <<"name", "age">>,
       values_type |-> <<"Integer", "VarChar">>] }

\* The bound on Insertable::Values: Expression<SqlType = Columns::SqlType>.
WellTyped(m) == m.values_type = FusedSqlType(m.columns)

Mappings == {m \in CandidateMappings : WellTyped(m)}

\* <&'a U>::columns()
ElemColumns(m) == m.columns

\* The records of the model: a value and the outcome of rendering it.
RecordKinds == [val : {"a", "b"}, fail : {"none", "E1", "E2"}]

\* record.values(): the element's value-expression.
ElemValues(record) ==
    [group |-> <<"(", record.val, ")">>, fail |-> record.fail]

\* QueryBuilder::push_sql
push_sql(o, sql) == Append(o, sql)

\* <element Values as QueryFragment>::to_sql: writes the value-group, or
\* fails before writing (E1), or fails after a partial write (E2).
ElemToSql(ve, o) ==
    CASE ve.fail = "none" -> [out |-> o \o ve.group, res |-> Ok]
      [] ve.fail = "E1"   -> [out |-> o, res |-> "E1"]
      [] ve.fail = "E2"   -> [out |-> push_sql(o, Head(ve.group)), res |-> "E2"]

----------------------------------------------------------------------------
\* Borrowed views.

SeqsUpTo(S, n) == UNION {[1..k -> S] : k \in 0..n}

BufId == "buf"

\* A plausible slip: the view loses its last element.
DerefVec_short(v) == [ptr |-> v.ptr, len |-> IF v.len > 0 THEN v.len - 1 ELSE 0]

\* &*self on a &Vec<U>: the slice over the Vec's buffer.
DerefVec(v) == [ptr |-> v.ptr, len |-> v.len]

\* self.values[i] (0-based, as enumerate() counts)
ViewAt(view, k) == heap[view.ptr][k + 1]

ViewSeq(view) == [k \in 1..view.len |-> heap[view.ptr][k]]

\* The collection forms the doc comment of Insertable names.
DocForms == {"slice", "vec", "vec_ref"}

\* The collection forms that have an impl of Insertable in this file.
ImplForms == {"slice", "vec_ref"}

\* A plausible slip: the column list once per record of the sequence.
RECURSIVE Repeat(_, _)
Repeat(cs, n) == IF n = 0 THEN <<>> ELSE cs \o Repeat(cs, n - 1)

BulkColumns_per_row(f, m) == Repeat(ElemColumns(m), Len(heap[BufId]))

\* <&'a [U]>::columns() and <&'a Vec<U>>::columns()
BulkColumns(f, m) == ElemColumns(m)

\* A plausible slip: the tag of the first column only.
InsertValues_SqlType_first(m) == InsertableColumns_SqlType(ElemColumns(m)[1])

\* impl Expression for InsertValues: type SqlType
InsertValues_SqlType(m) == FusedSqlType(ElemColumns(m))

\* The InsertValues struct built by values(self).
BulkValues(f) ==
    [values |-> IF f = "slice" THEN slice ELSE DerefVec(vec),
     marker |-> Table]

----------------------------------------------------------------------------
Init ==
    /\ \E recs \in SeqsUpTo(RecordKinds, MaxLen) :
          /\ heap = [b \in {BufId} |-> recs]
          /\ vec = [ptr |-> BufId, len |-> Len(recs)]
          /\ slice = [ptr |-> BufId, len |-> Len(recs)]
    /\ elemType \in Mappings
    /\ exprs = [f \in DocForms |-> None]
    /\ valuesTag = [f \in DocForms |-> None]
    /\ usable = [f \in DocForms |-> "untried"]
    /\ colsOut = [f \in DocForms |-> None]
    /\ namesOut = [c \in Columns |-> None]
    /\ out \in {<<>>, <<"VALUES ">>}
    /\ pc = "idle"
    /\ cur = NoForm
    /\ i = 0
    /\ mark = <<>>
    /\ converted = <<>>
    /\ hist = <<>>

\* values(self) that renders eagerly instead of deferring to to_sql.
Values_eager(f) ==
    /\ pc = "idle"
    /\ usable[f] = "untried"
    /\ IF f \in ImplForms
       THEN /\ exprs' = [exprs EXCEPT ![f] = Some(BulkValues(f))]
            /\ valuesTag' = [valuesTag EXCEPT ![f] = Some(InsertValues_SqlType(elemType))]
            /\ usable' = [usable EXCEPT ![f] = "ok"]
            /\ out' = IF BulkValues(f).values.len > 0
                      THEN ElemToSql(ElemValues(ViewAt(BulkValues(f).values, 0)), out).out
                      ELSE push_sql(out, ", ")
       ELSE /\ usable' = [usable EXCEPT ![f] = "no_impl"]
            /\ UNCHANGED <<exprs, valuesTag, out>>
    /\ UNCHANGED <<heap, vec, slice, elemType, colsOut, namesOut, pc, cur, i,
                   mark, converted, hist>>

\* A caller uses a collection of form f as the Insertable of an insert:
\* values(self) of the impl for that form, when there is one.
Values(f) ==
    /\ pc = "idle"
    /\ usable[f] = "untried"
    /\ IF f \in ImplForms
       THEN /\ exprs' = [exprs EXCEPT ![f] = Some(BulkValues(f))]
            /\ valuesTag' = [valuesTag EXCEPT ![f] = Some(InsertValues_SqlType(elemType))]
            /\ usable' = [usable EXCEPT ![f] = "ok"]
       ELSE /\ usable' = [usable EXCEPT ![f] = "no_impl"]
            /\ UNCHANGED <<exprs, valuesTag>>
    /\ UNCHANGED <<heap, vec, slice, elemType, colsOut, namesOut, out, pc, cur,
                   i, mark, converted, hist>>

\* columns() of a bulk impl.
ColumnsCall(f) ==
    /\ pc = "idle"
    /\ f \in ImplForms
    /\ colsOut' = [colsOut EXCEPT ![f] = Some(BulkColumns(f, elemType))]
    /\ UNCHANGED <<heap, vec, slice, elemType, exprs, valuesTag, usable,
                   namesOut, out, pc, cur, i, mark, converted, hist>>

\* names() of a single column used as a column-set.
NamesCall(c) ==
    /\ pc = "idle"
    /\ namesOut' = [namesOut EXCEPT ![c] =
                      Some([names |-> names(c),
                            sql_type |-> InsertableColumns_SqlType(c)])]
    /\ UNCHANGED <<heap, vec, slice, elemType, exprs, valuesTag, usable,
                   colsOut, out, pc, cur, i, mark, converted, hist>>

----------------------------------------------------------------------------
\* InsertValues::to_sql

\* The text the running call has appended so far.
Appended == SubSeq(out, Len(mark) + 1, Len(out))

\* A plausible slip: a separator before every element, the first included.
NeedsSeparator_always(k) == TRUE

\* if i != 0
NeedsSeparator(k) == k # 0

\* A plausible slip: the failure is swallowed and the loop goes on.
try_swallow(res) == [ret |-> FALSE, err |-> res]

\* try!: an Err leaves the function at once, carrying the same error.
try(res) == [ret |-> res # Ok, err |-> res]

\* What a finished call leaves: its result, the accumulator as it was
\* before the call, the text the call appended, the elements it converted.
Finished(res, o, conv) ==
    [form |-> cur, res |-> res, before |-> mark,
     kept |-> SubSeq(o, 1, Len(mark)),
     text |-> SubSeq(o, Len(mark) + 1, Len(o)), converted |-> conv]

\* to_sql that keeps the iterator position of the previous call.
ToSqlCall_stale(f) ==
    /\ pc = "idle"
    /\ exprs[f].some
    /\ Len(hist) < MaxCalls
    /\ pc' = "loop"
    /\ cur' = f
    /\ i' = IF hist = <<>> THEN 0 ELSE i
    /\ mark' = out
    /\ converted' = <<>>
    /\ UNCHANGED <<heap, vec, slice, elemType, exprs, valuesTag, usable,
                   colsOut, namesOut, out, hist>>

\* A caller asks the InsertValues built from form f to write itself:
\* self.values.into_iter().enumerate() starts at index 0.
ToSqlCall(f) ==
    /\ pc = "idle"
    /\ exprs[f].some
    /\ Len(hist) < MaxCalls
    /\ pc' = "loop"
    /\ cur' = f
    /\ i' = 0
    /\ mark' = out
    /\ converted' = <<>>
    /\ UNCHANGED <<heap, vec, slice, elemType, exprs, valuesTag, usable,
                   colsOut, namesOut, out, hist>>

\* to_sql that takes back what the call wrote when an element fails.
ToSqlIter_rollback ==
    /\ pc = "loop"
    /\ i < exprs[cur].v.values.len
    /\ LET record == ViewAt(exprs[cur].v.values, i)
           o1 == IF NeedsSeparator(i) THEN push_sql(out, ", ") ELSE out
           r == ElemToSql(ElemValues(record), o1)
           t == try(r.res)
       IN /\ converted' = Append(converted, i)
          /\ IF t.ret
             THEN /\ out' = mark
                  /\ pc' = "idle"
                  /\ hist' = Append(hist, Finished(t.err, mark, Append(converted, i)))
                  /\ UNCHANGED i
             ELSE /\ out' = r.out
                  /\ pc' = "loop"
                  /\ i' = i + 1
                  /\ UNCHANGED hist
    /\ UNCHANGED <<heap, vec, slice, elemType, exprs, valuesTag, usable,
                   colsOut, namesOut, cur, mark>>

\* One iteration of the for loop: the separator, record.values(), the
\* element's to_sql, and try!.
ToSqlIter ==
    /\ pc = "loop"
    /\ i < exprs[cur].v.values.len
    /\ LET record == ViewAt(exprs[cur].v.values, i)
           o1 == IF NeedsSeparator(i) THEN push_sql(out, ", ") ELSE out
           r == ElemToSql(ElemValues(record), o1)
           t == try(r.res)
       IN /\ out' = r.out
          /\ converted' = Append(converted, i)
          /\ IF t.ret
             THEN /\ pc' = "idle"
                  /\ hist' = Append(hist, Finished(t.err, r.out, Append(converted, i)))
                  /\ UNCHANGED i
             ELSE /\ pc' = "loop"
                  /\ i' = i + 1
                  /\ UNCHANGED hist
    /\ UNCHANGED <<heap, vec, slice, elemType, exprs, valuesTag, usable,
                   colsOut, namesOut, cur, mark>>

\* The iterator is exhausted: Ok(())
ToSqlReturn ==
    /\ pc = "loop"
    /\ i >= exprs[cur].v.values.len
    /\ pc' = "idle"
    /\ hist' = Append(hist, Finished(Ok, out, converted))
    /\ UNCHANGED <<heap, vec, slice, elemType, exprs, valuesTag, usable,
                   colsOut, namesOut, out, cur, i, mark, converted>>

Next ==
    \/ \E f \in DocForms : Values(f)
    \/ \E f \in ImplForms : ToSqlCall(f)
    \/ ToSqlIter
    \/ ToSqlReturn

Spec == Init /\ [][Next]_vars

NextMap ==
    \/ \E f \in DocForms : Values(f)
    \/ \E f \in ImplForms : ColumnsCall(f)
    \/ \E c \in Columns : NamesCall(c)

SpecMap == Init /\ [][NextMap]_vars

----------------------------------------------------------------------------
\* Reference definitions the properties are stated with.

\* The caller's record sequence.
Input == heap[BufId]

\* The value-group of one record.
Group(r) == <<"(", r.val, ")">>

\* Value-groups joined by ", ", built from the right.
RECURSIVE JoinGroups(_)
JoinGroups(rs) ==
    IF Len(rs) = 0 THEN <<>>
    ELSE IF Len(rs) = 1 THEN Group(rs[1])
    ELSE JoinGroups(SubSeq(rs, 1, Len(rs) - 1)) \o <<", ">> \o Group(rs[Len(rs)])

\* Position (1-based) of the first record whose rendering fails, 0 if none.
FirstFail(rs) ==
    IF \A k \in 1..Len(rs) : rs[k].fail = "none" THEN 0
    ELSE CHOOSE k \in 1..Len(rs) :
            /\ rs[k].fail # "none"
            /\ \A j \in 1..(k - 1) : rs[j].fail = "none"

\* What the failing element's own rendering writes before it fails.
PartialWrite(r) == IF r.fail = "E2" THEN <<"(">> ELSE <<>>

Count(t, tok) == Cardinality({k \in 1..Len(t) : t[k] = tok})

Calls == 1..Len(hist)

----------------------------------------------------------------------------
\* C1: when every element renders, to_sql returns Ok and appends exactly the
\* N value-groups in input order joined by ", ", with no leading or trailing
\* separator, after what the accumulator already held; N = 0 appends nothing
\* and succeeds, N = 1 appends one group and no separator.
C1_BulkRendering ==
    \A n \in Calls :
        LET h == hist[n] IN
        FirstFail(Input) = 0 =>
            /\ h.res = Ok
            /\ h.kept = h.before
            /\ h.text = JoinGroups(Input)
            /\ Count(h.text, "(") = Len(Input)
            /\ Count(h.text, ", ") = (IF Len(Input) = 0 THEN 0 ELSE Len(Input) - 1)
            /\ (Len(Input) = 0 => h.text = <<>>)
            /\ (Len(Input) = 1 => h.text = Group(Input[1]))
            /\ (Len(Input) > 0 => h.text[1] # ", " /\ h.text[Len(h.text)] # ", ")

C1_Witness ==
    \E n \in Calls :
        /\ hist[n].res = Ok
        /\ Len(Input) >= 2
        /\ Input[1] # Input[2]
        /\ hist[n].before # <<>>

\* C2: when the element at position k is the first whose rendering fails,
\* to_sql returns that element's failure unchanged, has converted exactly the
\* elements up to and including k, and the loop never goes on past a failed
\* element.
C2_FailFast ==
    /\ \A n \in Calls :
          LET h == hist[n]
              k == FirstFail(Input)
          IN k > 0 =>
               /\ h.res = Input[k].fail
               /\ h.converted = [j \in 1..k |-> j - 1]
    /\ pc = "loop" =>
          /\ \A j \in 0..(i - 1) : ViewAt(exprs[cur].v.values, j).fail = "none"
          /\ converted = [j \in 1..i |-> j - 1]

C2_Witness ==
    \E n \in Calls :
        /\ hist[n].res = "E2"
        /\ FirstFail(Input) = 2
        /\ Len(Input) >= 3

\* C3 as stated: a failed to_sql leaves in the accumulator none of the text
\* it wrote for the elements before the failing one.
C3_NoPartialFragment ==
    \A n \in Calls :
        LET h == hist[n]
            k == FirstFail(Input)
        IN k > 0 => h.text = PartialWrite(Input[k])

\* C3 amended: a failed to_sql returns only the failure, and the accumulator
\* is not rolled back: it holds what it held before the call, then the
\* value-groups and separators of the elements before the failing one, then
\* whatever the failing element's own rendering wrote.
C3_PartialTextRemains ==
    \A n \in Calls :
        LET h == hist[n]
            k == FirstFail(Input)
        IN k > 0 =>
             /\ h.res # Ok
             /\ h.kept = h.before
             /\ h.text = JoinGroups(SubSeq(Input, 1, k - 1))
                           \o (IF k > 1 THEN <<", ">> ELSE <<>>)
                           \o PartialWrite(Input[k])

C3_Witness ==
    \E n \in Calls :
        /\ hist[n].res # Ok
        /\ FirstFail(Input) >= 2
        /\ Len(hist[n].text) >= 4

\* C6: each of the three collection forms the documentation names, &[T],
\* Vec<T> and &Vec<T>, has an Insertable impl and can be used as the value
\* of a bulk insert.
C6_AllDocFormsInsertable ==
    \A f \in DocForms : usable[f] # "no_impl"

\* C7: values() on a borrowed Vec and on a borrowed slice of the same
\* elements give InsertValues over the same view of the caller's buffer
\* (no copy), and their to_sql calls give the same result, the same appended
\* text and convert the same elements.
C7_VecAndSliceAgree ==
    /\ \A f \in ImplForms :
          exprs[f].some =>
             /\ exprs[f].v.values = slice
             /\ exprs[f].v.values.ptr = vec.ptr
             /\ ViewSeq(exprs[f].v.values) = Input
    /\ \A n, m \in Calls :
          hist[n].form # hist[m].form =>
             /\ hist[n].res = hist[m].res
             /\ hist[n].text = hist[m].text
             /\ hist[n].converted = hist[m].converted

C7_Witness ==
    /\ Len(hist) >= 2
    /\ hist[1].form = "slice"
    /\ hist[2].form = "vec_ref"
    /\ Len(hist[2].text) >= 7

\* C8: two to_sql calls on the same InsertValues give the same result and
\* append the same text, and a to_sql call changes neither the InsertValues
\* nor the records it borrows.
C8_Idempotent ==
    /\ [](\A n, m \in Calls :
            hist[n].form = hist[m].form =>
               /\ hist[n].res = hist[m].res
               /\ hist[n].text = hist[m].text)
    /\ [][pc = "loop" => (heap' = heap /\ exprs' = exprs /\ vec' = vec
                           /\ slice' = slice)]_vars

C8_Witness ==
    /\ Len(hist) >= 2
    /\ hist[1].form = hist[2].form
    /\ hist[1].res = Ok
    /\ Len(hist[2].text) >= 7

\* C9: values(self) only wraps the borrowed sequence: the step that builds
\* an InsertValues writes nothing and converts no element, and every write
\* and every conversion is a step of a running to_sql call.
C9_RenderingDeferred ==
    [][/\ (exprs' # exprs => (out' = out /\ converted' = converted))
       /\ (out' # out => pc = "loop")
       /\ (Len(converted') > Len(converted) => pc = "loop")]_vars

C9_Witness ==
    /\ exprs["slice"].some
    /\ exprs["vec_ref"].some
    /\ Len(Input) >= 1
    /\ hist = <<>>
    /\ pc = "idle"
    /\ converted = <<>>
    /\ Len(out) <= 1

----------------------------------------------------------------------------
\* C4: for both bulk forms, the SQL type of the InsertValues built by
\* values() is the fused SQL type of the column-set columns() returns, which
\* is the element mapping's: the declared types of its columns in order.
C4_TypeTagsAgree ==
    \A f \in ImplForms :
        /\ valuesTag[f].some =>
              /\ valuesTag[f].v = elemType.values_type
              /\ valuesTag[f].v =
                    [k \in 1..Len(elemType.columns) |->
                        ColumnDecls[elemType.columns[k]].sql_type]
        /\ (valuesTag[f].some /\ colsOut[f].some) =>
              valuesTag[f].v =
                 [k \in 1..Len(colsOut[f].v) |-> ColumnDecls[colsOut[f].v[k]].sql_type]

C4_Witness ==
    /\ \A f \in ImplForms : valuesTag[f].some /\ colsOut[f].some
    /\ Len(elemType.columns) >= 2

\* C5: columns() of either bulk form is the element mapping's column-set,
\* once, whatever the number of records.
C5_BulkColumns ==
    \A f \in ImplForms :
        colsOut[f].some => colsOut[f].v = elemType.columns

C5_Witness ==
    /\ \A f \in ImplForms : colsOut[f].some
    /\ Len(Input) >= 3
    /\ Len(elemType.columns) >= 2

\* C10: a single column is a column-set of size one: its SqlType is the
\* column's declared SQL type alone, names() is the column's own name and
\* nothing else, and a later call returns the same.
C10_SingleColumnSet ==
    /\ [](\A c \in Columns :
            namesOut[c].some =>
               /\ namesOut[c].v.names = ColumnDecls[c].name
               /\ namesOut[c].v.sql_type = <<ColumnDecls[c].sql_type>>)
    /\ [][\A c \in Columns : namesOut[c].some => namesOut'[c] = namesOut[c]]_vars

C10_Witness ==
    \A c \in Columns : namesOut[c].some

====
